---- MODULE Spec2Model ----
\* Request trust gateway of the clinic backend: the authenticate middleware
\* (backend/middleware/authenticate.js), the authorizeRole middleware factory
\* (backend/middleware/authorizeRole.js) and the route chain
\* authenticate -> authorizeRole(allowedRoles, options) -> handler.
EXTENDS Integers, Sequences, FiniteSets, TLC

VARIABLES
    pc,        \* per request: where Express is in the route's middleware chain
    header,    \* per request: req.headers.authorization
    token,     \* per request: what the compact JWT carried in the header holds
    fault,     \* per request: jwt.verify raises an error of some other name
    route,     \* per request: the policy the matched route was registered with
    user,      \* per request: req.user
    res,       \* per request: the response sent, if any
    logs,      \* per request: the logger records emitted while handling it
    trace,     \* per request: the chain stages Express has invoked, in order
    roleTable, \* the module-level object ROLE_HIERARCHY, shared by all requests
    gen        \* the last call into the credential generator and what it left

vars ==
    <<pc, header, token, fault, route, user, res, logs, trace, roleTable, gen>>

\* ------------------------------------------------------------------ bounds

\* Longest Authorization header, in atoms (see HeaderAtoms).
MaxHeaderLen == 3

\* ------------------------------------------------------------------ values

\* undefined
None == [kind |-> "undefined"]

\* No call into the credential generator has been made.
GenIdle ==
    [op |-> "none", length |-> 0, array |-> <<>>, after |-> <<>>,
     result |-> <<>>, error |-> "none"]

\* The five keys of ROLE_HIERARCHY.
OwnRoles == {"admin", "manager", "dentist", "staff", "patient"}

\* ROLE_HIERARCHY is a plain object literal: a name such as "constructor" is
\* no key of it but is found on Object.prototype by a property read.
InheritedNames == {"constructor"}

\* Role strings a token or a route declaration may carry: the five roles, two
\* names unknown to the table, and a name inherited from Object.prototype.
RoleNames == OwnRoles \cup {"guest", "receptionist"} \cup InheritedNames

ROLE_HIERARCHY ==
    [admin |-> 5, manager |-> 4, dentist |-> 3, staff |-> 2, patient |-> 1]

\* JavaScript numbers as far as the middleware meets them.
Num(n) == [t |-> "num", v |-> n]
NaN == [t |-> "nan", v |-> 0]
Infinity == [t |-> "inf", v |-> 0]
\* A non-primitive (the function found under an inherited name).
ObjectValue == [t |-> "object", v |-> 0]

\* ToNumber: an object that is no number converts to NaN.
ToNumber(x) == IF x.t = "object" THEN NaN ELSE x

\* a >= b on JavaScript values: false as soon as either side is NaN.
GreaterOrEqual(a, b) ==
    LET x == ToNumber(a)
        y == ToNumber(b)
    IN  IF x.t = "nan" \/ y.t = "nan" THEN FALSE
        ELSE IF y.t = "inf" THEN x.t = "inf"
        ELSE IF x.t = "inf" THEN TRUE
        ELSE x.v >= y.v

\* Math.min(...values): Infinity without arguments, NaN when any argument
\* converts to NaN, the least argument otherwise.
MathMin(values) ==
    LET nums == {ToNumber(x) : x \in values}
    IN  IF nums = {} THEN Infinity
        ELSE IF NaN \in nums THEN NaN
        ELSE CHOOSE m \in nums : \A n \in nums : GreaterOrEqual(n, m)

\* ------------------------------------------------------- authorizeRole.js

\* ROLE_HIERARCHY[r] || 0
Level(r) ==
    IF r \in DOMAIN roleTable THEN Num(roleTable[r])
    ELSE IF r \in InheritedNames THEN ObjectValue
    ELSE Num(0)

\* options = {} and const { strict = false } = options
NoOptions == [k \in {} |-> TRUE]
StrictOption(b) == [k \in {"strict"} |-> b]

StrictIgnored(options) == FALSE

Strict(options) ==
    IF "strict" \in DOMAIN options THEN options["strict"] ELSE FALSE

\* A route's declaration: authorizeRole(allowedRoles, options). allowedRoles
\* is an array read only through includes() and map(); it is kept as the set
\* of its elements.
Policy(allowedRoles, options) ==
    [allowedRoles |-> allowedRoles, options |-> options]

RequiredLevelMax(allowedRoles) ==
    LET ls == {ToNumber(Level(r)) : r \in allowedRoles}
    IN  IF ls = {} THEN Infinity
        ELSE IF NaN \in ls THEN NaN
        ELSE CHOOSE m \in ls : \A n \in ls : GreaterOrEqual(m, n)

\* Math.min(...allowedRoles.map(r => ROLE_HIERARCHY[r] || 0))
RequiredLevel(allowedRoles) == MathMin({Level(r) : r \in allowedRoles})

\* What one run of a middleware leaves behind: the response it sent (None
\* when it sent none), the value of req.user after it, whether it called
\* next(), the logger records it emitted, and whether it called jwt.verify.
Outcome(response, principal, callsNext, records) ==
    [res |-> response, user |-> principal, next |-> callsNext, logs |-> records,
     verified |-> FALSE]

Response(status, message, code) ==
    [status |-> status, message |-> message, code |-> code]

\* The record both denial branches hand to logger.warn (the timestamp is
\* left out: it is the wall clock).
AuditRecord(message, u, policy) ==
    [level |-> "warn", message |-> message, userId |-> u.userId,
     userRole |-> u.role, requiredRoles |-> policy.allowedRoles,
     strictMode |-> Strict(policy.options)]

StrictDenialSilent(u, policy) ==
    Outcome(Response(403,
                "Access denied. This endpoint requires specific role access.",
                "none"),
            u, FALSE, <<>>)

\* if (strict) { logger.warn(...); return res.status(403).json(...) }
StrictDenial(u, policy) ==
    Outcome(Response(403,
                "Access denied. This endpoint requires specific role access.",
                "none"),
            u, FALSE,
            <<AuditRecord("Authorization failed (strict mode)", u, policy)>>)

\* logger.warn('Authorization failed', ...); return res.status(403).json(...)
HierarchyDenial(u, policy) ==
    Outcome(Response(403, "Access denied. Insufficient permissions.", "none"),
            u, FALSE, <<AuditRecord("Authorization failed", u, policy)>>)

\* The middleware authorizeRole(allowedRoles, options) returns, run on a
\* request whose req.user is u.
AuthorizeOutcome(u, policy) ==
    IF u = None
    THEN Outcome(Response(401, "Authentication required", "none"),
                 u, FALSE, <<>>)
    ELSE IF u.role \in policy.allowedRoles
    THEN Outcome(None, u, TRUE, <<>>)
    ELSE IF Strict(policy.options)
    THEN StrictDenial(u, policy)
    ELSE IF GreaterOrEqual(Level(u.role), RequiredLevel(policy.allowedRoles))
    THEN Outcome(None, u, TRUE, <<>>)
    ELSE HierarchyDenial(u, policy)

\* --------------------------------------------------------- authenticate.js

\* An Authorization header is a string, kept as the sequence of its pieces:
\* the word Bearer, one space, the words null and undefined, a well-formed
\* compact JWT (what it holds is the request's `token`), and x for any other
\* run of characters without a space.
HeaderAtoms == {"Bearer", " ", "null", "undefined", "jwt", "x"}

\* req.headers.authorization: undefined when the header is absent.
AbsentHeader == [present |-> FALSE, text |-> <<>>]
HeaderOf(text) == [present |-> TRUE, text |-> text]

\* A claim the payload does not carry.
Undefined == "<undefined>"

\* !x for the values a claim takes here: undefined and the empty string.
Falsy(x) == x \in {Undefined, ""}

\* authHeader.startsWith('Bearer ')
StartsWithBearer(text) ==
    Len(text) >= 2 /\ text[1] = "Bearer" /\ text[2] = " "

\* text.split(' '): the pieces between the spaces, empty ones included.
RECURSIVE Split(_)
Split(text) ==
    IF \A i \in 1..Len(text) : text[i] # " "
    THEN <<text>>
    ELSE LET k == CHOOSE i \in 1..Len(text) :
                      text[i] = " " /\ \A j \in 1..(i - 1) : text[j] # " "
         IN  <<SubSeq(text, 1, k - 1)>> \o Split(SubSeq(text, k + 1, Len(text)))

\* authHeader.split(' ')[1], for a header that starts with 'Bearer '
ExtractToken(text) == Split(text)[2]

EmptyTokenOnly == {<<>>}

\* !token || token === 'null' || token === 'undefined'
MissingTokenLiterals == {<<>>, <<"null">>, <<"undefined">>}

\* The algorithms a token's header may declare.
TokenAlgorithms == {"HS256", "RS256", "none"}

AnyAlgorithm == TokenAlgorithms

\* algorithms: ['HS256']
PinnedAlgorithms == {"HS256"}

\* What jwt.verify throws or returns.
Verified(error, payload) == [error |-> error, payload |-> payload]

\* jwt.verify(token, process.env.JWT_SECRET, { algorithms, complete: false }).
\* tok.alg is the algorithm the token's header declares; tok.sigOk says that
\* its signature part verifies under that algorithm with the configured
\* secret (for "none": that it is empty); the payload is claims.
\* The library checks structure, then the algorithm against `algorithms`,
\* then the signature, then nbf, then exp.
JwtVerify(tokenText, tok, flt, algorithms) ==
    IF flt THEN Verified("Error", None)
    ELSE IF tokenText # <<"jwt">> THEN Verified("JsonWebTokenError", None)
    ELSE IF tok.alg \notin algorithms THEN Verified("JsonWebTokenError", None)
    ELSE IF ~tok.sigOk THEN Verified("JsonWebTokenError", None)
    ELSE IF tok.notYetValid THEN Verified("NotBeforeError", None)
    ELSE IF tok.expired THEN Verified("TokenExpiredError", None)
    ELSE Verified("none", [userId |-> tok.userId, role |-> tok.role])

LogRecord(level, message) == [level |-> level, message |-> message]

RejectFallsThrough(response, records) == Outcome(response, None, TRUE, records)

\* return res.status(401).json(...): the response is sent, req.user is left
\* unset and next() is not called.
Reject(response, records) == Outcome(response, None, FALSE, records)

PayloadIncompleteUserOnly(decoded) == Falsy(decoded.userId)

\* !decoded.userId || !decoded.role
PayloadIncomplete(decoded) == Falsy(decoded.userId) \/ Falsy(decoded.role)

CatchNoCode(error) ==
    IF error \in {"TokenExpiredError", "JsonWebTokenError"}
    THEN Reject(Response(401, "Invalid token", "none"),
                <<LogRecord("warn", "JWT verification failed")>>)
    ELSE IF error = "NotBeforeError"
    THEN Reject(Response(401, "Token not yet valid", "none"), <<>>)
    ELSE Reject(Response(401, "Authentication failed", "none"),
                <<LogRecord("error", "Authentication error")>>)

CatchSilent(error) ==
    IF error = "TokenExpiredError"
    THEN Reject(Response(401, "Token expired", "TOKEN_EXPIRED"), <<>>)
    ELSE IF error = "JsonWebTokenError"
    THEN Reject(Response(401, "Invalid token", "none"), <<>>)
    ELSE IF error = "NotBeforeError"
    THEN Reject(Response(401, "Token not yet valid", "none"), <<>>)
    ELSE Reject(Response(401, "Authentication failed", "none"), <<>>)

\* catch (error) { ... }
Catch(error) ==
    IF error = "TokenExpiredError"
    THEN Reject(Response(401, "Token expired", "TOKEN_EXPIRED"), <<>>)
    ELSE IF error = "JsonWebTokenError"
    THEN Reject(Response(401, "Invalid token", "none"),
                <<LogRecord("warn", "JWT verification failed")>>)
    ELSE IF error = "NotBeforeError"
    THEN Reject(Response(401, "Token not yet valid", "none"), <<>>)
    ELSE Reject(Response(401, "Authentication failed", "none"),
                <<LogRecord("error", "Authentication error")>>)

\* authenticate(req, res, next) on a request with Authorization header h.
AuthenticateOutcome(h, tok, flt) ==
    IF ~h.present \/ h.text = <<>> \/ ~StartsWithBearer(h.text)
    THEN Reject(Response(401, "Authentication required", "none"), <<>>)
    ELSE IF ExtractToken(h.text) \in MissingTokenLiterals
    THEN Reject(Response(401, "Authentication required", "none"), <<>>)
    ELSE LET v == JwtVerify(ExtractToken(h.text), tok, flt, PinnedAlgorithms)
             o == IF v.error # "none" THEN Catch(v.error)
                  ELSE IF PayloadIncomplete(v.payload)
                  THEN Reject(Response(401, "Invalid token", "none"),
                              <<LogRecord("warn", "Invalid token payload")>>)
                  ELSE Outcome(None, v.payload, TRUE, <<>>)
         IN  [o EXCEPT !.verified = TRUE]

\* ------------------------------------------------------------ the requests

\* Every header text of at most MaxHeaderLen atoms.
HeaderTexts ==
    UNION {[1..n -> HeaderAtoms] : n \in 0..MaxHeaderLen}

Headers == {AbsentHeader} \cup {HeaderOf(text) : text \in HeaderTexts}

\* What a compact JWT can hold, as far as jwt.verify and authenticate read it.
Tokens ==
    [alg : TokenAlgorithms, sigOk : BOOLEAN, notYetValid : BOOLEAN,
     expired : BOOLEAN, userId : {Undefined, "u1"},
     role : RoleNames \cup {Undefined, ""}]

\* The token of a request whose header carries no well-formed JWT.
NoToken ==
    [alg |-> "none", sigOk |-> FALSE, notYetValid |-> FALSE,
     expired |-> FALSE, userId |-> Undefined, role |-> Undefined]

\* The header carries a token that reaches jwt.verify.
ReachesVerify(h) ==
    /\ h.present
    /\ StartsWithBearer(h.text)
    /\ ExtractToken(h.text) \notin MissingTokenLiterals

\* The token jwt.verify is given is a well-formed compact JWT.
CarriesJwt(h) == ReachesVerify(h) /\ ExtractToken(h.text) = <<"jwt">>

\* The policies of the routes as registered: the admin router's
\* authorizeRole(['admin', 'manager']) and authorizeRole(['admin']), and the
\* strict patient-only declaration authorizeRole's usage note gives.
Routes ==
    { Policy({"admin", "manager"}, NoOptions),
      Policy({"admin"}, NoOptions),
      Policy({"patient"}, StrictOption(TRUE)) }

\* Every declaration authorizeRole can be called with over RoleNames.
AllPolicies ==
    { Policy(allowed, options) :
        allowed \in SUBSET RoleNames,
        options \in {NoOptions, StrictOption(TRUE), StrictOption(FALSE)} }

\* A req.user as authenticate attaches it.
Principals == [userId : {"u1"}, role : RoleNames]

Requests == {"r1"}

Init ==
    /\ pc = [id \in Requests |-> "idle"]
    /\ header = [id \in Requests |-> AbsentHeader]
    /\ token = [id \in Requests |-> NoToken]
    /\ fault = [id \in Requests |-> FALSE]
    /\ route = [id \in Requests |-> Policy({}, NoOptions)]
    /\ user = [id \in Requests |-> None]
    /\ res = [id \in Requests |-> None]
    /\ logs = [id \in Requests |-> <<>>]
    /\ trace = [id \in Requests |-> <<>>]
    /\ roleTable = ROLE_HIERARCHY
    /\ gen = GenIdle

\* Express matches an incoming request to a protected route
\* (router.get('/users', authenticate, authorizeRole([...]), listUsers)).
Receive(id) ==
    /\ pc[id] = "idle"
    /\ \E h \in Headers, r \in Routes :
         \E tok \in (IF CarriesJwt(h) THEN Tokens ELSE {NoToken}),
            flt \in (IF ReachesVerify(h) THEN BOOLEAN ELSE {FALSE}) :
           /\ header' = [header EXCEPT ![id] = h]
           /\ token' = [token EXCEPT ![id] = tok]
           /\ fault' = [fault EXCEPT ![id] = flt]
           /\ route' = [route EXCEPT ![id] = r]
    /\ pc' = [pc EXCEPT ![id] = "authenticate"]
    /\ UNCHANGED <<user, res, logs, trace, roleTable, gen>>

\* The middleware authorizeRole(allowedRoles, options) returned is invoked
\* on a request as earlier middleware left it (req.user set or not).
EnterAuthorize(id) ==
    /\ pc[id] = "idle"
    /\ \E u \in Principals \cup {None}, r \in AllPolicies :
           /\ user' = [user EXCEPT ![id] = u]
           /\ route' = [route EXCEPT ![id] = r]
    /\ pc' = [pc EXCEPT ![id] = "authorizeRole"]
    /\ UNCHANGED <<header, token, fault, res, logs, trace, roleTable, gen>>

ApplyShared(id, stage, o, following) ==
    /\ user' = [i \in DOMAIN user |-> o.user]
    /\ res' = [res EXCEPT ![id] = IF o.res = None THEN res[id] ELSE o.res]
    /\ logs' = [logs EXCEPT ![id] = logs[id] \o o.logs]
    /\ trace' = [trace EXCEPT ![id] =
                     Append(trace[id], stage)
                         \o (IF o.verified THEN <<"jwt.verify">> ELSE <<>>)]
    /\ pc' = [pc EXCEPT ![id] = IF o.next THEN following ELSE "responded"]
    /\ UNCHANGED <<header, token, fault, route, roleTable, gen>>

\* One middleware of the chain runs to its return: its outcome is applied
\* to the request, and Express moves on only if it called next().
Apply(id, stage, o, following) ==
    /\ user' = [user EXCEPT ![id] = o.user]
    /\ res' = [res EXCEPT ![id] = IF o.res = None THEN res[id] ELSE o.res]
    /\ logs' = [logs EXCEPT ![id] = logs[id] \o o.logs]
    /\ trace' = [trace EXCEPT ![id] =
                     Append(trace[id], stage)
                         \o (IF o.verified THEN <<"jwt.verify">> ELSE <<>>)]
    /\ pc' = [pc EXCEPT ![id] = IF o.next THEN following ELSE "responded"]
    /\ UNCHANGED <<header, token, fault, route, roleTable, gen>>

Authenticate(id) ==
    /\ pc[id] = "authenticate"
    /\ Apply(id, "authenticate",
             AuthenticateOutcome(header[id], token[id], fault[id]),
             "authorizeRole")

AuthorizeRole(id) ==
    /\ pc[id] = "authorizeRole"
    /\ Apply(id, "authorizeRole", AuthorizeOutcome(user[id], route[id]),
             "handler")

\* The route handler (listUsers, createUser, ...) runs and answers.
Handler(id) ==
    /\ pc[id] = "handler"
    /\ res' = [res EXCEPT ![id] = Response(200, "OK", "none")]
    /\ trace' = [trace EXCEPT ![id] = Append(trace[id], "handler")]
    /\ pc' = [pc EXCEPT ![id] = "done"]
    /\ UNCHANGED <<header, token, fault, route, user, logs, roleTable, gen>>

Next ==
    \E id \in Requests :
        \/ Receive(id)
        \/ Authenticate(id)
        \/ AuthorizeRole(id)
        \/ Handler(id)

\* The protected route chain, one request at a time.
Spec == Init /\ [][Next]_vars

AuthzNext ==
    \E id \in Requests :
        \/ EnterAuthorize(id)
        \/ AuthorizeRole(id)
        \/ Handler(id)

\* authorizeRole's middleware on its own, over every declaration and every
\* req.user.
AuthzSpec == Init /\ [][AuthzNext]_vars

\* ------------------------------------------------------------- properties

\* Stage `stage` of the chain has been invoked on request id.
Ran(id, stage) == \E i \in 1..Len(trace[id]) : trace[id][i] = stage

\* Request id was ended by an error response of a middleware.
Refused(id) == res[id] # None /\ res[id].status \in {401, 403}

\* authorizeRole has run on request id, which carried a principal.
Authorized(id) == Ran(id, "authorizeRole") /\ user[id] # None

\* authorizeRole called next() on request id.
Passed(id) == Ran(id, "authorizeRole") /\ pc[id] \in {"handler", "done"}

\* The request's route was declared non-strict (no options, or strict: false).
NonStrict(id) == route[id].options \in {NoOptions, StrictOption(FALSE)}

C1_Guarded ==
    \A id \in Requests :
        /\ Ran(id, "handler") =>
              /\ user[id] # None
              /\ SubSeq(trace[id], 1, 3)
                    = <<"authenticate", "jwt.verify", "authorizeRole">>
              /\ AuthorizeOutcome(user[id], route[id]).next
        /\ Refused(id) => pc[id] = "responded" /\ ~Ran(id, "handler")

C1_Terminal ==
    \A id \in Requests :
        Refused(id) =>
            /\ pc'[id] = pc[id]
            /\ trace'[id] = trace[id]
            /\ res'[id] = res[id]
            /\ user'[id] = user[id]

\* C1: on the chain authenticate -> authorizeRole -> handler the handler runs
\* only after authenticate attached req.user and authorizeRole called next();
\* a request answered 401 or 403 by a middleware is over: no later middleware
\* and no handler is invoked on it, and its response stays.
C1_HandlerOnlyAfterBothPass == [](C1_Guarded) /\ [][C1_Terminal]_vars

\* C1 witness: a request went through both middlewares and its handler ran.
C1_Witness ==
    \E id \in Requests :
        /\ pc[id] = "done"
        /\ trace[id]
              = <<"authenticate", "jwt.verify", "authorizeRole", "handler">>
        /\ res[id].status = 200

\* C2: under strict: true a principal passes authorizeRole exactly when its
\* role is an element of allowedRoles; every other role gets 403, whatever
\* its rank.
C2_StrictIsExactMembership ==
    \A id \in Requests :
        (Authorized(id) /\ route[id].options = StrictOption(TRUE)) =>
            /\ Passed(id) <=> user[id].role \in route[id].allowedRoles
            /\ ~Passed(id) => res[id] # None /\ res[id].status = 403

\* C2 witness: admin was refused on the strict patient-only declaration.
C2_Witness ==
    \E id \in Requests :
        /\ Authorized(id)
        /\ route[id] = Policy({"patient"}, StrictOption(TRUE))
        /\ user[id].role = "admin"
        /\ res[id] # None /\ res[id].status = 403

\* The ranks as the specification states them; any other name ranks 0.
C3_Rank(r) ==
    CASE r = "admin" -> 5
      [] r = "manager" -> 4
      [] r = "dentist" -> 3
      [] r = "staff" -> 2
      [] r = "patient" -> 1
      [] OTHER -> 0

\* C3: on a non-strict route that declares recognised roles, a principal of
\* any role passes exactly when its role is declared or its rank is at least
\* the least rank declared; otherwise it gets the 403 of the hierarchy
\* branch. An empty declaration has no least rank and lets nobody pass.
C3_HierarchyIsMinimumRank ==
    \A id \in Requests :
        (Authorized(id) /\ NonStrict(id)
            /\ route[id].allowedRoles \subseteq OwnRoles) =>
            /\ Passed(id) <=>
                  \/ user[id].role \in route[id].allowedRoles
                  \/ \E least \in route[id].allowedRoles :
                        /\ \A r \in route[id].allowedRoles :
                              C3_Rank(least) <= C3_Rank(r)
                        /\ C3_Rank(user[id].role) >= C3_Rank(least)
            /\ ~Passed(id) =>
                  /\ res[id] # None
                  /\ res[id].status = 403
                  /\ res[id].message
                        = "Access denied. Insufficient permissions."

\* C3 witness: on allowedRoles = {manager, dentist}, non-strict, staff was
\* refused (admin passing is C3_WitnessAdmin).
C3_Witness ==
    \E id \in Requests :
        /\ Authorized(id) /\ NonStrict(id)
        /\ route[id].allowedRoles = {"manager", "dentist"}
        /\ user[id].role = "staff"
        /\ res[id] # None /\ res[id].status = 403

C3_WitnessAdmin ==
    \E id \in Requests :
        /\ Passed(id) /\ NonStrict(id)
        /\ route[id].allowedRoles = {"manager", "dentist"}
        /\ user[id].role = "admin"

\* C4: a principal whose role is none of the five recognised roles passes
\* authorizeRole only if its role string is itself an element of
\* allowedRoles, for every declaration and either strict setting.
C4_UnknownRoleNeverPassesByRank ==
    \A id \in Requests :
        (Passed(id) /\ user[id] # None /\ user[id].role \notin OwnRoles) =>
            user[id].role \in route[id].allowedRoles

\* C5: a request that reaches authorizeRole with a principal and is refused
\* with 403 has exactly one audit record, and one that is let through has
\* none.
C5_OneAuditRecordPerDenial ==
    \A id \in Requests :
        Authorized(id) =>
            /\ (res[id] # None /\ res[id].status = 403) =>
                  /\ Len(logs[id]) = 1
                  /\ logs[id][1].level = "warn"
                  /\ logs[id][1].userRole = user[id].role
                  /\ logs[id][1].requiredRoles = route[id].allowedRoles
            /\ Passed(id) => logs[id] = <<>>
            /\ Passed(id) \/ (res[id] # None /\ res[id].status = 403)

\* C5 witness: a strict refusal that left its audit record.
C5_Witness ==
    \E id \in Requests :
        /\ Authorized(id)
        /\ res[id] # None /\ res[id].status = 403
        /\ Len(logs[id]) = 1
        /\ logs[id][1].message = "Authorization failed (strict mode)"

\* authenticate has run on request id and ended it with this 401 body.
Rejected(id, message, code) ==
    /\ Ran(id, "authenticate")
    /\ pc[id] = "responded"
    /\ res[id] = Response(401, message, code)
    /\ user[id] = None
    /\ ~Ran(id, "authorizeRole")

\* The header of request id is 'Bearer ' followed by one well-formed JWT
\* (and possibly by a space and more text, which split() drops).
BearerJwt(id) ==
    /\ header[id].present
    /\ Len(header[id].text) >= 3
    /\ SubSeq(header[id].text, 1, 3) = <<"Bearer", " ", "jwt">>
    /\ Len(header[id].text) >= 4 => header[id].text[4] = " "

\* The JWT of request id is signed with HS256 under the configured secret.
GenuineSignature(id) == token[id].alg = "HS256" /\ token[id].sigOk

\* C6: authenticate accepts HS256 under the configured secret and nothing
\* else: a token whose header declares another algorithm (none included) is
\* answered 401 and yields no principal, however complete and fresh its
\* payload is; whenever a principal is attached the token was a genuine
\* HS256 one.
C6_OnlyPinnedAlgorithm ==
    \A id \in Requests :
        Ran(id, "authenticate") =>
            /\ (BearerJwt(id) /\ token[id].alg # "HS256") =>
                  /\ res[id] # None /\ res[id].status = 401
                  /\ user[id] = None
                  /\ pc[id] = "responded"
            /\ user[id] # None => BearerJwt(id) /\ GenuineSignature(id)

\* C6 witness: an unexpired, complete token declaring "none" whose (empty)
\* signature is valid for that algorithm was rejected as invalid.
C6_Witness ==
    \E id \in Requests :
        /\ BearerJwt(id)
        /\ token[id].alg = "none" /\ token[id].sigOk
        /\ ~token[id].expired /\ ~token[id].notYetValid /\ ~fault[id]
        /\ token[id].userId = "u1" /\ token[id].role = "admin"
        /\ Rejected(id, "Invalid token", "none")

\* The JWT of request id passes jwt.verify.
PassesVerify(id) ==
    /\ BearerJwt(id)
    /\ GenuineSignature(id)
    /\ ~token[id].notYetValid
    /\ ~token[id].expired
    /\ ~fault[id]

\* C7: a token that passes verification but carries no user identifier or
\* no role is answered 401 'Invalid token'; req.user stays unset, next() is
\* not called and authorizeRole never runs on the request.
C7_IncompletePayloadRejected ==
    \A id \in Requests :
        (Ran(id, "authenticate") /\ PassesVerify(id)
            /\ (token[id].userId = Undefined
                  \/ token[id].role \in {Undefined, ""})) =>
            Rejected(id, "Invalid token", "none")

\* C7 witness: a verified token with a user identifier and no role was
\* rejected.
C7_Witness ==
    \E id \in Requests :
        /\ PassesVerify(id)
        /\ token[id].userId = "u1" /\ token[id].role = Undefined
        /\ Rejected(id, "Invalid token", "none")

\* C8 as stated: every request whose token is expired is answered 401 with
\* code TOKEN_EXPIRED, and no other outcome of authenticate has that code.
C8_EveryExpiredTokenGetsCode ==
    \A id \in Requests :
        Ran(id, "authenticate") =>
            /\ (BearerJwt(id) /\ token[id].expired) =>
                  Rejected(id, "Token expired", "TOKEN_EXPIRED")
            /\ (res[id] # None /\ res[id].code = "TOKEN_EXPIRED") =>
                  BearerJwt(id) /\ token[id].expired

\* C8 amended: a request is answered 401 with code TOKEN_EXPIRED exactly
\* when jwt.verify reports expiry: its token is a genuine HS256 token that is
\* already active and expired, and verification raises nothing else. An
\* expired token that fails the algorithm or signature check, or is also not
\* yet valid, gets the answer of that earlier check, without the code.
C8_CodeExactlyWhenVerifyReportsExpiry ==
    \A id \in Requests :
        Ran(id, "authenticate") =>
            /\ (BearerJwt(id) /\ GenuineSignature(id) /\ ~fault[id]
                    /\ ~token[id].notYetValid /\ token[id].expired) =>
                  Rejected(id, "Token expired", "TOKEN_EXPIRED")
            /\ (res[id] # None /\ res[id].code = "TOKEN_EXPIRED") =>
                  /\ BearerJwt(id) /\ GenuineSignature(id) /\ ~fault[id]
                  /\ ~token[id].notYetValid /\ token[id].expired
                  /\ res[id].status = 401

\* C8 witness: an expired genuine token, here one that also lacks its role
\* claim, was answered with the code.
C8_Witness ==
    \E id \in Requests :
        /\ BearerJwt(id) /\ GenuineSignature(id) /\ token[id].expired
        /\ token[id].role = Undefined
        /\ Rejected(id, "Token expired", "TOKEN_EXPIRED")

\* The header of request id is absent, does not start with 'Bearer ', or
\* has as its token the empty string, 'null' or 'undefined'.
NoTokenPresented(id) ==
    LET text == header[id].text
    IN  \/ ~header[id].present
        \/ Len(text) < 2
        \/ text[1] # "Bearer" \/ text[2] # " "
        \/ Len(text) = 2
        \/ text[3] = " "
        \/ /\ text[3] \in {"null", "undefined"}
           /\ Len(text) >= 4 => text[4] = " "

\* C9: a header that is absent, lacks the 'Bearer ' marker, or carries an
\* empty, 'null' or 'undefined' token gets the one answer an absent header
\* gets, 401 'Authentication required'; jwt.verify is not called, req.user
\* stays unset, nothing is logged.
C9_NoTokenIsOneAnswer ==
    \A id \in Requests :
        (Ran(id, "authenticate") /\ NoTokenPresented(id)) =>
            /\ Rejected(id, "Authentication required", "none")
            /\ trace[id] = <<"authenticate">>
            /\ logs[id] = <<>>

\* C9 witness: 'Bearer null' was answered as an absent header is.
C9_Witness ==
    \E id \in Requests :
        /\ header[id] = HeaderOf(<<"Bearer", " ", "null">>)
        /\ Rejected(id, "Authentication required", "none")
        /\ trace[id] = <<"authenticate">>

\* C10 as stated: among the 401 outcomes of authenticate only the
\* invalid-token ones leave a log record; a missing token leaves none.
C10_OnlyInvalidTokenLogged ==
    \A id \in Requests :
        (Ran(id, "authenticate") /\ pc[id] = "responded") =>
            /\ logs[id] # <<>> => res[id].message = "Invalid token"
            /\ NoTokenPresented(id) => logs[id] = <<>>

\* C10 amended: a 401 outcome of authenticate leaves a log record (exactly
\* one) when it is an invalid-token outcome (verification failed on
\* structure, algorithm or signature, or a claim is missing) and also when
\* it is the fallback for an unexpected error, which is logged at level
\* error; missing-token, expired and not-yet-valid outcomes leave none.
C10_LoggedOutcomes ==
    \A id \in Requests :
        (Ran(id, "authenticate") /\ pc[id] = "responded") =>
            /\ res[id].message \in {"Invalid token", "Authentication failed"}
                  => Len(logs[id]) = 1
            /\ res[id].message = "Invalid token" => logs[id][1].level = "warn"
            /\ res[id].message = "Authentication failed"
                  => logs[id][1].level = "error"
            /\ res[id].message \in
                  {"Authentication required", "Token expired",
                   "Token not yet valid"} => logs[id] = <<>>
            /\ NoTokenPresented(id) => logs[id] = <<>>
            /\ (BearerJwt(id) /\ ~fault[id] /\ ~GenuineSignature(id))
                  => Len(logs[id]) = 1

\* C10 witness: a token with a bad signature was rejected and logged once.
C10_Witness ==
    \E id \in Requests :
        /\ BearerJwt(id) /\ ~token[id].sigOk /\ ~fault[id]
        /\ Rejected(id, "Invalid token", "none")
        /\ Len(logs[id]) = 1

\* ------------------------------------------------ requests handled together

\* Two requests in flight at once.
ConcRequests == {"r1", "r2"}

\* The headers and tokens the two requests are drawn from: no header, the
\* 'null' token, another scheme, and a Bearer JWT that is or is not genuine,
\* expired, and of a role above, at, below or outside the routes' roles.
ConcHeaders ==
    { AbsentHeader,
      HeaderOf(<<"Bearer", " ", "null">>),
      HeaderOf(<<"x", " ", "jwt">>),
      HeaderOf(<<"Bearer", " ", "jwt">>) }

ConcTokens ==
    [alg : {"HS256", "none"}, sigOk : BOOLEAN, notYetValid : {FALSE},
     expired : BOOLEAN, userId : {"u1"},
     role : {"admin", "staff", "patient", "guest"}]

ConcInit ==
    /\ pc = [id \in ConcRequests |-> "idle"]
    /\ header = [id \in ConcRequests |-> AbsentHeader]
    /\ token = [id \in ConcRequests |-> NoToken]
    /\ fault = [id \in ConcRequests |-> FALSE]
    /\ route = [id \in ConcRequests |-> Policy({}, NoOptions)]
    /\ user = [id \in ConcRequests |-> None]
    /\ res = [id \in ConcRequests |-> None]
    /\ logs = [id \in ConcRequests |-> <<>>]
    /\ trace = [id \in ConcRequests |-> <<>>]
    /\ roleTable = ROLE_HIERARCHY
    /\ gen = GenIdle

\* Receive, with the request drawn from ConcHeaders and ConcTokens.
ConcReceive(id) ==
    /\ pc[id] = "idle"
    /\ \E h \in ConcHeaders, r \in Routes :
         \E tok \in (IF CarriesJwt(h) THEN ConcTokens ELSE {NoToken}),
            flt \in (IF ReachesVerify(h) THEN BOOLEAN ELSE {FALSE}) :
           /\ header' = [header EXCEPT ![id] = h]
           /\ token' = [token EXCEPT ![id] = tok]
           /\ fault' = [fault EXCEPT ![id] = flt]
           /\ route' = [route EXCEPT ![id] = r]
    /\ pc' = [pc EXCEPT ![id] = "authenticate"]
    /\ UNCHANGED <<user, res, logs, trace, roleTable, gen>>

ConcNext ==
    \E id \in ConcRequests :
        \/ ConcReceive(id)
        \/ Authenticate(id)
        \/ AuthorizeRole(id)
        \/ Handler(id)

\* Two requests on the protected chain, their middleware runs interleaved in
\* every order (Node runs each middleware to its return before another
\* callback starts; every order of whole runs is allowed here, which
\* includes the orders Express produces).
ConcSpec == ConcInit /\ [][ConcNext]_vars

\* The verdict of a request handled alone, as a function of its header, its
\* token and its route's policy: the 401 of authenticate, else the 403 (or
\* 401) of authorizeRole, else the pass-through to the handler.
PassThrough == [status |-> 0, message |-> "next()", code |-> "none"]

SoloVerdict(h, tok, flt, policy) ==
    LET a == AuthenticateOutcome(h, tok, flt)
        z == AuthorizeOutcome(a.user, policy)
    IN  IF ~a.next THEN a.res
        ELSE IF ~z.next THEN z.res
        ELSE PassThrough

\* The verdict request id has reached: the error response that ended it, or
\* the pass-through once authorizeRole called next().
Verdict(id) ==
    IF pc[id] = "responded" THEN res[id] ELSE PassThrough

Decided(id) == pc[id] \in {"responded", "handler", "done"}

\* C11: whatever the interleaving of two requests, each decided request has
\* the verdict its own header, token and route policy give it when handled
\* alone, its req.user is the principal of its own token, and ROLE_HIERARCHY
\* still is the table the module was loaded with.
C11_VerdictIndependent ==
    /\ roleTable = ROLE_HIERARCHY
    /\ \A id \in DOMAIN pc :
          Decided(id) =>
              /\ Verdict(id)
                    = SoloVerdict(header[id], token[id], fault[id], route[id])
              /\ user[id]
                    = AuthenticateOutcome(header[id], token[id], fault[id]).user

\* C11 witness: on the same route, with both requests received before either
\* was decided, r1 (admin) was let through and is still awaiting its
\* handler while r2 (staff) has been refused 403.
C11_Witness ==
    /\ DOMAIN pc = ConcRequests
    /\ route["r1"] = route["r2"]
    /\ token["r1"].role = "admin" /\ pc["r1"] = "handler"
    /\ token["r2"].role = "staff" /\ pc["r2"] = "responded"
    /\ res["r2"] # None /\ res["r2"].status = 403
    /\ res["r1"] = None

\* ------------------------------------------ credential generator (crypto)

\* Longest array handed to secureShuffle.
MaxShuffleLen == 4

\* The elements of the arrays handed to secureShuffle.
ShuffleAlphabet == <<"a", "b", "c", "d", "e", "f">>
ShuffleElements == {ShuffleAlphabet[i] : i \in 1..Len(ShuffleAlphabet)}

\* The arrays handed to secureShuffle: of every length up to MaxShuffleLen,
\* the array of distinct elements and every array over two elements (which
\* repeats elements from length 3 on).
ShuffleInputs ==
    UNION { {SubSeq(ShuffleAlphabet, 1, n)} \cup [1..n -> {"a", "b"}] :
              n \in 0..MaxShuffleLen }

DrawSeqsExclusive(n) ==
    {d \in [1..(n - 1) -> 0..(n - 1)] : \A k \in 1..(n - 1) : d[k] < n - k}

\* What the calls secureRandomInt(i + 1) of one secureShuffle of n elements
\* can return, in call order: the k-th call has i = n - k and returns an
\* integer from 0 to i (crypto.randomInt(0, max) excludes max).
DrawSeqs(n) ==
    {d \in [1..(n - 1) -> 0..(n - 1)] : \A k \in 1..(n - 1) : d[k] <= n - k}

\* [arr[i], arr[j]] = [arr[j], arr[i]], on 0-based indices.
Swap(arr, i, j) ==
    [arr EXCEPT ![i + 1] = arr[j + 1], ![j + 1] = arr[i + 1]]

\* for (let i = arr.length - 1; i > 0; i--) { j = draw; swap(i, j) }, from
\* index i on.
RECURSIVE ShuffleFrom(_, _, _)
ShuffleFrom(arr, i, draws) ==
    IF i > 0
    THEN ShuffleFrom(Swap(arr, i, draws[Len(arr) - i]), i - 1, draws)
    ELSE arr

SecureShuffleInPlace(array, draws) ==
    [array |-> ShuffleFrom(array, Len(array) - 1, draws),
     result |-> ShuffleFrom(array, Len(array) - 1, draws)]

\* secureShuffle(array) under the draws given: the caller's array after the
\* call (the loop works on the copy [...array]) and the array returned.
SecureShuffle(array, draws) ==
    [array |-> array,
     result |-> ShuffleFrom(array, Len(array) - 1, draws)]

\* A caller runs secureShuffle on an array.
CallSecureShuffle ==
    /\ gen.op = "none"
    /\ \E array \in ShuffleInputs :
         \E draws \in DrawSeqs(Len(array)) :
           LET c == SecureShuffle(array, draws)
           IN  gen' = [op |-> "secureShuffle", length |-> Len(array),
                       array |-> array, after |-> c.array,
                       result |-> c.result, error |-> "none"]
    /\ UNCHANGED <<pc, header, token, fault, route, user, res, logs, trace,
                   roleTable>>

\* Longest password asked of generateTempPassword.
MaxLength == 5

\* The lengths of the strings uppercase, lowercase, numbers and symbols.
UppercaseLen == 26
LowercaseLen == 26
NumbersLen == 10
SymbolsLen == 8

\* allChars = uppercase + lowercase + numbers + symbols. A character is kept
\* as its index in allChars, so uppercase.charAt(k) is k, lowercase.charAt(k)
\* is UppercaseLen + k, and so on.
AllCharsLen == UppercaseLen + LowercaseLen + NumbersLen + SymbolsLen

\* The values of secureRandomInt(max) followed up for a character draw: the
\* two ends of its range, 0 and max - 1 (the first and the last character
\* of the string indexed). The draws of the shuffle are followed up in full.
Sampled(max) == {0, max - 1}

FillCountOffByOne(length) == IF length > 3 THEN length - 3 ELSE 0

\* for (let i = 4; i < length; i++): how many characters the loop appends.
FillCount(length) == IF length > 4 THEN length - 4 ELSE 0

\* The password before the shuffle: one character of each class, in the
\* order uppercase, lowercase, numbers, symbols, then the fill characters.
ComposePassword(u, l, n, y, fills) ==
    << u,
       UppercaseLen + l,
       UppercaseLen + LowercaseLen + n,
       UppercaseLen + LowercaseLen + NumbersLen + y >> \o fills

\* generateTempPassword(length) under the draws given: the string returned
\* and the error thrown, if any (the function has no throw).
GenerateTempPassword(length, u, l, n, y, fills, draws) ==
    [result |-> SecureShuffle(ComposePassword(u, l, n, y, fills), draws).result,
     error |-> "none"]

\* A caller runs generateTempPassword(length).
CallGenerateTempPassword ==
    /\ gen.op = "none"
    /\ \E length \in 0..MaxLength :
         \E u \in Sampled(UppercaseLen), l \in Sampled(LowercaseLen),
            n \in Sampled(NumbersLen), y \in Sampled(SymbolsLen),
            fills \in [1..FillCount(length) -> Sampled(AllCharsLen)] :
           \E draws \in DrawSeqs(4 + Len(fills)) :
             LET g == GenerateTempPassword(length, u, l, n, y, fills, draws)
             IN  gen' = [op |-> "generateTempPassword", length |-> length,
                         array |-> <<>>, after |-> <<>>,
                         result |-> g.result, error |-> g.error]
    /\ UNCHANGED <<pc, header, token, fault, route, user, res, logs, trace,
                   roleTable>>

GenNext ==
    \/ CallSecureShuffle
    \/ CallGenerateTempPassword

\* Calls into the credential generator, each under every outcome of its
\* random draws that is followed up.
GenSpec == Init /\ [][GenNext]_vars

\* The character classes, by index in allChars.
IsUppercase(c) == c \in 0..25
IsLowercase(c) == c \in 26..51
IsDigit(c) == c \in 52..61
IsSymbol(c) == c \in 62..69

Has(str, Class(_)) == \E i \in 1..Len(str) : Class(str[i])

\* C12: for a requested length of at least 4, generateTempPassword returns a
\* string of exactly that length holding at least one uppercase letter, one
\* lowercase letter, one digit and one symbol, whatever the draws.
C12_LengthAndClasses ==
    (gen.op = "generateTempPassword" /\ gen.length >= 4) =>
        /\ gen.error = "none"
        /\ Len(gen.result) = gen.length
        /\ Has(gen.result, IsUppercase)
        /\ Has(gen.result, IsLowercase)
        /\ Has(gen.result, IsDigit)
        /\ Has(gen.result, IsSymbol)

\* C12 witness: a password of length 5 was returned whose first character
\* is not the uppercase one.
C12_Witness ==
    /\ gen.op = "generateTempPassword"
    /\ gen.length = 5
    /\ Len(gen.result) = 5
    /\ ~IsUppercase(gen.result[1])

\* C13: a call with a length below the number of classes fails with an
\* InvalidLengthError and returns no password, and no call returns a string
\* whose length differs from the length asked.
C13_ShortLengthFails ==
    gen.op = "generateTempPassword" =>
        /\ gen.length < 4 =>
              gen.error = "InvalidLengthError" /\ gen.result = <<>>
        /\ gen.error = "none" => Len(gen.result) = gen.length

\* How often e occurs in seq.
Count(seq, e) == Cardinality({i \in 1..Len(seq) : seq[i] = e})

\* Every reordering of seq.
Orderings(seq) ==
    { [i \in 1..Len(seq) |-> seq[p[i]]] :
        p \in {q \in [1..Len(seq) -> 1..Len(seq)] :
                 \A i, j \in 1..Len(seq) : q[i] = q[j] => i = j} }

\* C14: secureShuffle returns an array of the input's length holding the
\* input's elements as often as the input does, leaves the caller's array as
\* it was, and every reordering of the input is returned under some draws.
C14_ShuffleIsPermutation ==
    gen.op = "secureShuffle" =>
        /\ gen.after = gen.array
        /\ Len(gen.result) = Len(gen.array)
        /\ \A e \in ShuffleElements :
              Count(gen.result, e) = Count(gen.array, e)
        /\ Orderings(gen.array) \subseteq
              {SecureShuffle(gen.array, d).result :
                  d \in DrawSeqs(Len(gen.array))}

\* C14 witness: four distinct elements were returned in reverse order.
C14_Witness ==
    /\ gen.op = "secureShuffle"
    /\ gen.array = <<"a", "b", "c", "d">>
    /\ gen.after = <<"a", "b", "c", "d">>
    /\ gen.result = <<"d", "c", "b", "a">>

====
